---- MODULE Spec2Model ----
(***************************************************************************)
(* Wiki monster normalisation and deduplication, as implemented in         *)
(* scripts/ingest_monsters_wiki.py: the field coercers, the tag stripper,  *)
(* transform_monster, should_include and the fold of main() into           *)
(* monsters_by_id.                                                         *)
(*                                                                         *)
(* A Python value is a record holding its type t and, under the name of    *)
(* the type, its payload.  A str is a sequence of one-character strings,   *)
(* so that case folding, substring search, splitting, integer parsing and  *)
(* regular-expression matching are computed character by character as the *)
(* interpreter does.  A raised exception is the value Raised(kind).  A     *)
(* dict with str keys is a function from keys to values; its key order is  *)
(* read by no operation modelled here except the repr of a dict, which is  *)
(* exact for dicts of at most one key.                                     *)
(***************************************************************************)
EXTENDS Integers, Sequences, FiniteSets, TLC

VARIABLES
  wiki_monsters,    \* main: the raw records fetched from the wiki, in source order
  filter_mode,      \* main: args.filter
  dry_run,          \* main: args.dry_run
  pc,               \* main: "loop", "write" or "exit"; a call: "call", "called" or "apply"
  pos,              \* main: number of records of wiki_monsters consumed by the for loop
  monsters_by_id,   \* main: id -> canonical monster
  skipped,          \* main: records transform_monster rejected
  filtered,         \* main: entities should_include refused
  files,            \* out_dir: file name -> the entity (or index) written to it
  exit_code,        \* what the process exits with, -1 while running
  wiki_data,        \* the argument of a call of transform_monster
  monster,          \* what that call returned, Pending before the call
  again,            \* what a second call with the same argument returned
  fn,               \* the name of a function called on its own
  args,             \* the arguments of that call
  result            \* what that call returned, Pending before the call

vars == << wiki_monsters, filter_mode, dry_run, pc, pos, monsters_by_id, skipped,
           filtered, files, exit_code, wiki_data, monster, again, fn, args, result >>

mainVars == << wiki_monsters, filter_mode, dry_run, pc, pos, monsters_by_id, skipped,
               filtered, files, exit_code >>

callVars == << wiki_data, monster, again >>

pureVars == << fn, args, result >>

----------------------------------------------------------------------------
(* Python values *)

PyNone == [t |-> "none"]
PyInt(n) == [t |-> "int", int |-> n]
PyBool(b) == [t |-> "bool", bool |-> b]
PyFloat(n) == [t |-> "float", float |-> n]
PyStr(s) == [t |-> "str", str |-> s]
PyList(xs) == [t |-> "list", list |-> xs]
PyDict(f) == [t |-> "dict", dict |-> f]
Raised(kind) == [t |-> "raise", raise |-> kind]

IsRaised(x) == x.t = "raise"

\* bool(x), and the test of "if x", "x or y", "x and y".
Truthy(x) ==
  CASE x.t = "none" -> FALSE
    [] x.t = "int" -> x.int # 0
    [] x.t = "float" -> x.float # 0
    [] x.t = "bool" -> x.bool
    [] x.t = "str" -> Len(x.str) > 0
    [] x.t = "list" -> Len(x.list) > 0
    [] x.t = "dict" -> DOMAIN x.dict # {}

\* x == "literal" for a str literal: only a str compares equal to a str.
EqStr(x, s) == x.t = "str" /\ x.str = s

\* d.get(key, default) on a dict.
DictGet(d, key, default) == IF key \in DOMAIN d THEN d[key] ELSE default

----------------------------------------------------------------------------
(* str: characters and the str methods the script calls *)

UpperCase == <<"A", "B", "C", "D", "E", "F", "G", "H", "I", "J", "K", "L", "M", "N", "O", "P", "Q", "R", "S", "T", "U", "V", "W", "X", "Y", "Z">>
LowerCase == <<"a", "b", "c", "d", "e", "f", "g", "h", "i", "j", "k", "l", "m", "n", "o", "p", "q", "r", "s", "t", "u", "v", "w", "x", "y", "z">>
DigitChars == <<"0", "1", "2", "3", "4", "5", "6", "7", "8", "9">>

Range(s) == {s[i] : i \in 1..Len(s)}

IsUpper(c) == c \in Range(UpperCase)
IsLower(c) == c \in Range(LowerCase)
IsDigit(c) == c \in Range(DigitChars)
IsLetter(c) == IsUpper(c) \/ IsLower(c)                \* [A-Za-z]
IsAlnum(c) == IsLetter(c) \/ IsDigit(c)                \* [a-zA-Z0-9]
IsHexUpper(c) == IsDigit(c) \/ c \in {"A", "B", "C", "D", "E", "F"}   \* [0-9A-F]
\* The backquote character (the one character SANY cannot read inside a string).
Backquote == "backquote"

IsQuote(c) == c \in {"'", "\"", Backquote}
IsSpace(c) == c \in {" ", "\t", "\n", "\r"}            \* str.isspace()

DigitValue(c) == CHOOSE d \in 0..9 : DigitChars[d + 1] = c

LowerChar(c) == IF IsUpper(c) THEN LowerCase[CHOOSE i \in 1..26 : UpperCase[i] = c] ELSE c

\* s.lower()
lower(s) == [i \in 1..Len(s) |-> LowerChar(s[i])]

\* p occurs in s starting at index i.
MatchesAt(p, s, i) ==
  /\ i >= 1
  /\ i + Len(p) - 1 <= Len(s)
  /\ \A j \in 1..Len(p) : s[i + j - 1] = p[j]

\* p in s, for two strs.
Contains(p, s) == \E i \in 1..(Len(s) + 1) : MatchesAt(p, s, i)

\* s.find(c) + 1 for a one-character c: the first index of c in s, 0 if none.
FirstIndex(c, s) ==
  IF \E i \in 1..Len(s) : s[i] = c
  THEN CHOOSE i \in 1..Len(s) : s[i] = c /\ \A j \in 1..(i - 1) : s[j] # c
  ELSE 0

\* s.strip()
strip(s) ==
  IF \A i \in 1..Len(s) : IsSpace(s[i]) THEN << >>
  ELSE LET a == CHOOSE i \in 1..Len(s) : ~IsSpace(s[i]) /\ \A j \in 1..(i - 1) : IsSpace(s[j])
           b == CHOOSE i \in 1..Len(s) : ~IsSpace(s[i]) /\ \A j \in (i + 1)..Len(s) : IsSpace(s[j])
       IN  SubSeq(s, a, b)

\* The character c is of the class a regex names: \d, [A-Za-z], [a-zA-Z0-9],
\* or the quotes of STRIP_MARKER_RE.
InClass(class, c) ==
  CASE class = "digit" -> IsDigit(c)
    [] class = "letter" -> IsLetter(c)
    [] class = "alnum" -> IsAlnum(c)
    [] class = "quote" -> IsQuote(c)

\* The length of the longest run of characters of the class in s from index i.
RunLength(class, s, i) ==
  LET stops == {j \in i..Len(s) : ~InClass(class, s[j])}
  IN  IF stops = {} THEN Len(s) - i + 1
      ELSE (CHOOSE j \in stops : \A k \in stops : j <= k) - i

\* The value of a run of decimal digits (underscores between digits skipped).
RECURSIVE DigitsValue(_)
DigitsValue(s) ==
  IF Len(s) = 0 THEN 0
  ELSE IF s[Len(s)] = "_" THEN DigitsValue(SubSeq(s, 1, Len(s) - 1))
  ELSE 10 * DigitsValue(SubSeq(s, 1, Len(s) - 1)) + DigitValue(s[Len(s)])

\* int(s) accepts s: surrounding whitespace, an optional sign, then decimal
\* digits with single underscores between them.
Unsigned(u) == IF Len(u) > 0 /\ u[1] \in {"+", "-"} THEN SubSeq(u, 2, Len(u)) ELSE u

IntBody(s) == Unsigned(strip(s))

IsDigitString(b) ==
  /\ Len(b) > 0
  /\ IsDigit(b[1]) /\ IsDigit(b[Len(b)])
  /\ \A i \in 1..Len(b) : IsDigit(b[i]) \/ b[i] = "_"
  /\ \A i \in 1..(Len(b) - 1) : ~(b[i] = "_" /\ b[i + 1] = "_")

IsIntLiteral(s) == IsDigitString(IntBody(s))

Signed(u) ==
  IF Len(u) > 0 /\ u[1] = "-" THEN 0 - DigitsValue(Unsigned(u)) ELSE DigitsValue(Unsigned(u))

IntLiteralValue(s) == Signed(strip(s))

\* str(n) for an int n.
RECURSIVE NatToStr(_)
NatToStr(n) ==
  IF n < 10 THEN << DigitChars[n + 1] >>
  ELSE NatToStr(n \div 10) \o << DigitChars[(n % 10) + 1] >>

IntToStr(n) == IF n < 0 THEN << "-" >> \o NatToStr(0 - n) ELSE NatToStr(n)

----------------------------------------------------------------------------
(* repr() and str() of a value *)

RECURSIVE Flatten(_)
Flatten(ss) == IF Len(ss) = 0 THEN << >> ELSE Head(ss) \o Flatten(Tail(ss))

\* ", ".join(parts)
RECURSIVE JoinComma(_)
JoinComma(parts) ==
  IF Len(parts) = 0 THEN << >>
  ELSE IF Len(parts) = 1 THEN parts[1]
  ELSE parts[1] \o << ",", " " >> \o JoinComma(Tail(parts))

\* repr(s) of a str: single quotes, unless s holds a single quote and no double
\* quote; the delimiter, the backslash and the line-break characters escaped.
ReprStr(s) ==
  LET q == IF "'" \in Range(s) /\ "\"" \notin Range(s) THEN "\"" ELSE "'"
      Esc(c) == CASE c = "\\" -> << "\\", "\\" >>
                  [] c = q -> << "\\", c >>
                  [] c = "\n" -> << "\\", "n" >>
                  [] c = "\r" -> << "\\", "r" >>
                  [] c = "\t" -> << "\\", "t" >>
                  [] OTHER -> << c >>
  IN  << q >> \o Flatten([i \in 1..Len(s) |-> Esc(s[i])]) \o << q >>

\* repr(x).  A dict's keys are one-character strs.
RECURSIVE Repr(_)
Repr(x) ==
  CASE x.t = "none" -> <<"N", "o", "n", "e">>
    [] x.t = "int" -> IntToStr(x.int)
    [] x.t = "float" -> IntToStr(x.float) \o << ".", "0" >>
    [] x.t = "bool" -> IF x.bool THEN <<"T", "r", "u", "e">> ELSE <<"F", "a", "l", "s", "e">>
    [] x.t = "str" -> ReprStr(x.str)
    [] x.t = "list" ->
         << "[" >> \o JoinComma([i \in 1..Len(x.list) |-> Repr(x.list[i])]) \o << "]" >>
    [] x.t = "dict" ->
         LET keys == DOMAIN x.dict
             item(k) == ReprStr(<< k >>) \o << ":", " " >> \o Repr(x.dict[k])
         IN  << "{" >>
             \o (IF keys = {} THEN << >> ELSE item(CHOOSE k \in keys : TRUE))
             \o << "}" >>

\* str(x)
Str(x) == IF x.t = "str" THEN x.str ELSE Repr(x)

----------------------------------------------------------------------------
(* The field coercers *)

\* int(x): an int, or Raised("TypeError") / Raised("ValueError").
int(x) ==
  CASE x.t = "int" -> PyInt(x.int)
    [] x.t = "bool" -> PyInt(IF x.bool THEN 1 ELSE 0)
    [] x.t = "float" -> PyInt(x.float)
    [] x.t = "str" -> IF IsIntLiteral(x.str) THEN PyInt(IntLiteralValue(x.str))
                      ELSE Raised("ValueError")
    [] OTHER -> Raised("TypeError")

\* Safely convert a value to int, handling lists and None.
\* try: return n, except (TypeError, ValueError): return default
OrDefault(n, default) == IF IsRaised(n) THEN default ELSE n.int

safe_int(value, default) ==
  IF value.t = "none" THEN default
  ELSE OrDefault(int(IF value.t = "list"
                     THEN (IF Truthy(value) THEN value.list[1] ELSE PyInt(default))
                     ELSE value),
                 default)

max2(a, b) == IF a >= b THEN a ELSE b

\* Safely convert a value to unsigned int, clamping negatives to 0.
safe_uint(value, default) == max2(0, safe_int(value, default))

\* The number an int or a bool compares as.
NumOf(x) == IF x.t = "bool" THEN (IF x.bool THEN 1 ELSE 0) ELSE x.int

\* int(match.group(1)) for re.match(r"^(\d+)", s), 0 where there is no match.
LeadingDigits(s) == DigitsValue(SubSeq(s, 1, RunLength("digit", s, 1)))

\* Parse max_hit which can be int, string like '97 (Melee)', or list of such.
\* The result is the int parsed, or the raw value itself where isinstance(value,
\* int) holds (a bool included).
RECURSIVE parse_max_hit(_)
RECURSIVE parse_max_hit_list(_, _, _)
parse_max_hit(value) ==
  CASE value.t = "none" -> PyInt(0)
    [] value.t = "list" -> parse_max_hit_list(value.list, 1, PyInt(0))
    [] value.t \in {"int", "bool"} -> value
    [] value.t = "str" -> PyInt(LeadingDigits(strip(value.str)))
    [] OTHER -> PyInt(0)

\* The loop of parse_max_hit, were the last element of the list to win.
parse_max_hit_list_last(items, i, max_val) ==
  IF Len(items) = 0 THEN max_val ELSE parse_max_hit(items[Len(items)])

\* The for loop of parse_max_hit over items[i..], max_val so far.
parse_max_hit_list(items, i, max_val) ==
  IF i > Len(items) THEN max_val
  ELSE LET parsed == parse_max_hit(items[i])
       IN  parse_max_hit_list(items, i + 1,
                              IF NumOf(parsed) > NumOf(max_val) THEN parsed ELSE max_val)

\* safe_str, were the first element of a list to win.
safe_str_first(value, default) ==
  IF value.t = "none" THEN default
  ELSE IF value.t = "list"
       THEN (IF Truthy(value) THEN Str(value.list[1]) ELSE Str(PyStr(default)))
       ELSE Str(value)

\* Safely convert a value to str, handling lists and None.
safe_str(value, default) ==
  IF value.t = "none" THEN default
  ELSE IF value.t = "list"
       THEN (IF Truthy(value) THEN Str(value.list[Len(value.list)]) ELSE Str(PyStr(default)))
       ELSE Str(value)

\* Safely convert a value to bool.
safe_bool(value, default) ==
  CASE value.t = "none" -> default
    [] value.t = "bool" -> value.bool
    [] value.t = "str" -> lower(value.str) \in {<<"t", "r", "u", "e">>, <<"y", "e", "s">>, <<"1">>}
    [] OTHER -> Truthy(value)

NoneWord == <<"N", "o", "n", "e">>
NAWord == <<"N", "/", "A">>

IsPlaceholder(s) == EqStr(s, NoneWord) \/ EqStr(s, NAWord)

\* [f(x) for x in kept] where f is x.lower(): AttributeError if an x is no str.
LowerAll(kept) ==
  IF \E i \in 1..Len(kept) : kept[i].t # "str" THEN Raised("AttributeError")
  ELSE PyList([i \in 1..Len(kept) |-> PyStr(lower(kept[i].str))])

\* Normalize attack style to a list of lowercase strings.
normalize_attack_style(style) ==
  IF style.t = "none" \/ IsPlaceholder(style) THEN PyList(<< >>)
  ELSE IF style.t = "str" THEN PyList(<< PyStr(lower(style.str)) >>)
  ELSE IF style.t = "list"
       THEN LowerAll(SelectSeq(style.list, LAMBDA s : Truthy(s) /\ ~IsPlaceholder(s)))
  ELSE PyList(<< >>)

\* Normalize attributes to a list of lowercase strings.
normalize_attributes(attrs) ==
  IF attrs.t = "none" THEN PyList(<< >>)
  ELSE IF attrs.t = "str" THEN PyList(<< PyStr(lower(attrs.str)) >>)
  ELSE IF attrs.t = "list" THEN LowerAll(SelectSeq(attrs.list, Truthy))
  ELSE PyList(<< >>)

\* Normalize slayer category to a list of strings.
normalize_slayer_category(category) ==
  IF category.t = "none" THEN PyList(<< >>)
  ELSE IF category.t = "str" THEN PyList(<< category >>)
  ELSE IF category.t = "list" THEN PyList(SelectSeq(category.list, Truthy))
  ELSE PyList(<< >>)

----------------------------------------------------------------------------
(* The tag stripper *)

UNIQ == <<"U", "N", "I", "Q", "-", "-">>
QINU == <<"-", "Q", "I", "N", "U">>

\* STRIP_MARKER_RE at index i of s: the length of the match, 0 if none.  Every
\* repetition of the pattern is followed by a character outside its class, so
\* the greedy match is the only one.
MarkerMatch(s, i) ==
  LET u == i + RunLength("quote", s, i)        \* "UNIQ--"
      a == u + Len(UNIQ)                       \* [a-zA-Z0-9]+
      n == RunLength("alnum", s, a)
      h == a + n + 1                           \* [0-9A-F]{8}, after "-"
      q == h + 8                               \* "-QINU"
      z == q + Len(QINU)                       \* the closing quotes
  IN  IF /\ MatchesAt(UNIQ, s, u)
         /\ n >= 1
         /\ a + n <= Len(s) /\ s[a + n] = "-"
         /\ h + 7 <= Len(s) /\ \A k \in h..(h + 7) : IsHexUpper(s[k])
         /\ MatchesAt(QINU, s, q)
      THEN z + RunLength("quote", s, z) - i
      ELSE 0

\* STRIP_MARKER_RE.sub("", s) from index i on: leftmost matches, not overlapping.
RECURSIVE SubMarkers(_, _)
SubMarkers(s, i) ==
  IF i > Len(s) THEN << >>
  ELSE LET m == MarkerMatch(s, i)
       IN  IF m > 0 THEN SubMarkers(s, i + m) ELSE << s[i] >> \o SubMarkers(s, i + 1)

\* Recursively strip wiki parser tags from values.
RECURSIVE strip_parser_tags(_)
strip_parser_tags(value) ==
  CASE value.t = "dict" -> PyDict([k \in DOMAIN value.dict |-> strip_parser_tags(value.dict[k])])
    [] value.t = "list" ->
         PyList([i \in 1..Len(value.list) |-> strip_parser_tags(value.list[i])])
    [] value.t = "str" -> PyStr(strip(SubMarkers(value.str, 1)))
    [] OTHER -> value

----------------------------------------------------------------------------
(* The record classifier and the canonical transformer *)

\* Monsters to skip (discontinued, unreleased, or otherwise problematic).
MONSTERS_TO_SKIP ==
  << <<"A", "l", "b", "a", "t", "r", "o", "s", "s">>,
     <<"A", "r", "m", "o", "u", "r", "e", "d", " ", "k", "r", "a", "k", "e", "n">>,
     <<"B", "u", "l", "l", " ", "s", "h", "a", "r", "k">>,
     <<"B", "u", "t", "t", "e", "r", "f", "l", "y", " ", "r", "a", "y">>,
     <<"E", "a", "g", "l", "e", " ", "r", "a", "y">>,
     <<"F", "r", "i", "g", "a", "t", "e", "b", "i", "r", "d">>,
     <<"G", "r", "e", "a", "t", " ", "w", "h", "i", "t", "e", " ", "s", "h", "a", "r", "k">>,
     <<"H", "a", "m", "m", "e", "r", "h", "e", "a", "d", " ", "s", "h", "a", "r", "k">>,
     <<"M", "a", "n", "t", "a", " ", "r", "a", "y", " ", "(", "S", "a", "i", "l", "i", "n", "g", ")">>,
     <<"M", "o", "g", "r", "e", " ", "(", "S", "a", "i", "l", "i", "n", "g", ")">>,
     <<"N", "a", "r", "w", "h", "a", "l">>,
     <<"O", "r", "c", "a">>,
     <<"O", "s", "p", "r", "e", "y">>,
     <<"P", "y", "g", "m", "y", " ", "k", "r", "a", "k", "e", "n">>,
     <<"S", "p", "i", "n", "e", "d", " ", "k", "r", "a", "k", "e", "n">>,
     <<"S", "t", "i", "n", "g", "r", "a", "y">>,
     <<"T", "e", "r", "n">>,
     <<"T", "i", "g", "e", "r", " ", "s", "h", "a", "r", "k">> >>

\* version = page_name_sub.split("#", 1)[1], "" on IndexError.
version_of(page_name_sub) ==
  LET h == FirstIndex("#", page_name_sub)
  IN  IF h = 0 THEN << >> ELSE SubSeq(page_name_sub, h + 1, Len(page_name_sub))

\* Skip Challenge Mode variants (handled by calculator UI).
skip_challenge_mode(version) == Contains(<<"C", "h", "a", "l", "l", "e", "n", "g", "e", " ", "M", "o", "d", "e">>, version)

\* Skip spawn points and non-attackable variants.
skip_version(version) ==
  \/ Contains(<<"S", "p", "a", "w", "n", " ", "p", "o", "i", "n", "t">>, version)
  \/ Contains(<<"A", "s", "l", "e", "e", "p">>, version)
  \/ Contains(<<"D", "e", "f", "e", "a", "t", "e", "d">>, version)

\* Skip non-main namespace: re.match(r"^[A-Za-z]+:", page_name_sub).
skip_namespace(page_name_sub) ==
  LET n == RunLength("letter", page_name_sub, 1)
  IN  n >= 1 /\ n + 1 <= Len(page_name_sub) /\ page_name_sub[n + 1] = ":"

\* Skip specific monsters: page_name in MONSTERS_TO_SKIP.
skip_listed(page_name) ==
  \E i \in 1..Len(MONSTERS_TO_SKIP) : EqStr(page_name, MONSTERS_TO_SKIP[i])

BarrierKinds == { <<"S", "t", "r", "o", "n", "g">>, <<"W", "e", "a", "k">>, <<"M", "e", "d", "i", "u", "m">>, <<"O", "v", "e", "r", "c", "h", "a", "r", "g", "e", "d">> }

\* Skip barriers: re.match(r"^(Strong|Weak|Medium|Overcharged) Barrier$", ...).
\* "$" also matches before a line break that ends the string.
skip_barrier(page_name_sub) ==
  \E k \in BarrierKinds :
    \/ page_name_sub = k \o <<" ", "B", "a", "r", "r", "i", "e", "r">>
    \/ page_name_sub = k \o <<" ", "B", "a", "r", "r", "i", "e", "r">> \o << "\n" >>

\* skip_name, were the page name not lowercased.
skip_name_case_sensitive(page_name) ==
  \/ Contains(<<"(", "h", "i", "s", "t", "o", "r", "i", "c", "a", "l", ")">>, page_name)
  \/ Contains(<<"(", "p", "v", "m", " ", "a", "r", "e", "n", "a", ")">>, page_name)
  \/ Contains(<<"(", "d", "e", "a", "d", "m", "a", "n", ":", " ", "a", "p", "o", "c", "a", "l", "y", "p", "s", "e", ")">>, page_name)
  \/ Contains(<<"(", "l", "a", "s", "t", " ", "m", "a", "n", " ", "s", "t", "a", "n", "d", "i", "n", "g", ")">>, page_name)

\* Skip historical/arena variants, on the lowercased page name.
skip_name(page_name) ==
  LET name_lower == lower(page_name)
  IN  \/ Contains(<<"(", "h", "i", "s", "t", "o", "r", "i", "c", "a", "l", ")">>, name_lower)
      \/ Contains(<<"(", "p", "v", "m", " ", "a", "r", "e", "n", "a", ")">>, name_lower)
      \/ Contains(<<"(", "d", "e", "a", "d", "m", "a", "n", ":", " ", "a", "p", "o", "c", "a", "l", "y", "p", "s", "e", ")">>, name_lower)
      \/ Contains(<<"(", "l", "a", "s", "t", " ", "m", "a", "n", " ", "s", "t", "a", "n", "d", "i", "n", "g", ")">>, name_lower)

\* The entries of the canonical monster that are safe_int(wiki_data.get(raw key)):
\* canonical key |-> raw key.
INT_FIELDS ==
  [ combat_level |-> "combat_level",
    attack_level |-> "attack_level",
    strength_level |-> "strength_level",
    defence_level |-> "defence_level",
    magic_level |-> "magic_level",
    ranged_level |-> "ranged_level",
    attack_bonus |-> "attack_bonus",
    strength_bonus |-> "strength_bonus",
    attack_magic |-> "magic_attack_bonus",
    magic_bonus |-> "magic_damage_bonus",
    attack_ranged |-> "range_attack_bonus",
    ranged_bonus |-> "range_strength_bonus",
    defence_stab |-> "stab_defence_bonus",
    defence_slash |-> "slash_defence_bonus",
    defence_crush |-> "crush_defence_bonus",
    defence_magic |-> "magic_defence_bonus",
    defence_ranged |-> "range_defence_bonus",
    defence_ranged_light |-> "light_range_defence_bonus",
    defence_ranged_standard |-> "standard_range_defence_bonus",
    defence_ranged_heavy |-> "heavy_range_defence_bonus",
    elemental_weakness_percent |-> "elemental_weakness_percent" ]

\* The entries that are safe_uint(wiki_data.get(raw key), default):
\* canonical key |-> the raw key and the default.
UINT_FIELDS ==
  [ attack_speed |-> [raw |-> "attack_speed", default |-> 0],
    size |-> [raw |-> "size", default |-> 1],
    slayer_level |-> [raw |-> "slayer_level", default |-> 1] ]

\* The entries that are safe_bool(wiki_data.get(raw key)).
BOOL_FIELDS == [ immune_poison |-> "poison_immune", immune_venom |-> "venom_immune" ]

\* "literal" in xs, were the letter case of the elements to be ignored.
InListAnyCase(s, xs) == \E i \in 1..Len(xs) : xs[i].t = "str" /\ lower(xs[i].str) = lower(s)

\* "literal" in xs, for a list xs.
InList(s, xs) == \E i \in 1..Len(xs) : EqStr(xs[i], s)

BossWord == <<"b", "o", "s", "s">>
BossesWord == <<"B", "o", "s", "s", "e", "s">>

\* s or None
OrNone(s) == IF Len(s) > 0 THEN PyStr(s) ELSE PyNone

\* The dict literal of transform_monster, given the lists the normalisers
\* returned; Raised if one of them raised.
monster_literal(d, page_name, page_name_sub, version, monster_id, hitpoints, slayer_category, attributes, attack_type, slayer_experience) ==
  IF IsRaised(attributes) THEN attributes
  ELSE IF IsRaised(attack_type) THEN attack_type
  ELSE PyDict(
         [k \in DOMAIN INT_FIELDS |-> PyInt(safe_int(DictGet(d, INT_FIELDS[k], PyNone), 0))]
         @@ [k \in DOMAIN UINT_FIELDS |->
               PyInt(safe_uint(DictGet(d, UINT_FIELDS[k].raw, PyNone), UINT_FIELDS[k].default))]
         @@ [k \in DOMAIN BOOL_FIELDS |->
               PyBool(safe_bool(DictGet(d, BOOL_FIELDS[k], PyNone), FALSE))]
         @@ [ id |-> PyInt(monster_id),
              name |-> page_name,
              version |-> OrNone(version),
              hitpoints |-> PyInt(hitpoints),
              attack_type |-> attack_type,
              max_hit |-> parse_max_hit(DictGet(d, "max_hit", PyNone)),
              attributes |-> attributes,
              category |-> slayer_category,
              \* is_slayer
              slayer_monster |-> PyBool(Truthy(slayer_category) \/ slayer_experience > 0),
              slayer_xp |-> PyFloat(slayer_experience),
              \* is_boss
              boss |-> PyBool(\/ InList(BossWord, attributes.list)
                              \/ InList(BossesWord, slayer_category.list)),
              elemental_weakness |->
                OrNone(safe_str(DictGet(d, "elemental_weakness", PyNone), << >>)),
              _source |-> PyStr(<<"o", "s", "r", "s", "_", "w", "i", "k", "i">>),
              _wiki_page |-> PyStr(page_name_sub) ])

\* Build canonical monster object, from the raw record d.
build_monster(d, page_name, page_name_sub, version, monster_id, hitpoints) ==
  monster_literal(d, page_name, page_name_sub, version, monster_id, hitpoints,
                  normalize_slayer_category(DictGet(d, "slayer_category", PyNone)),
                  normalize_attributes(DictGet(d, "attribute", PyNone)),
                  normalize_attack_style(DictGet(d, "attack_style", PyNone)),
                  safe_int(DictGet(d, "slayer_experience", PyNone), 0))

\* The steps of transform_monster after the extraction of the version.
classify_and_build(d, page_name, page_name_sub, version, monster_id, hitpoints) ==
  IF skip_challenge_mode(version) THEN PyNone
  ELSE IF skip_namespace(page_name_sub) THEN PyNone
  ELSE IF skip_listed(page_name) THEN PyNone
  ELSE IF skip_version(version) THEN PyNone
  ELSE IF skip_barrier(page_name_sub) THEN PyNone
  ELSE IF monster_id = 0 THEN PyNone
  ELSE IF hitpoints = 0 THEN PyNone
  ELSE IF page_name.t # "str" THEN Raised("AttributeError")       \* page_name.lower()
  ELSE IF skip_name(page_name.str) THEN PyNone
  ELSE \* Strip any wiki parser markers (an exception raised while the dict is
       \* built passes through: strip_parser_tags leaves it as it is)
       strip_parser_tags(build_monster(d, page_name, page_name_sub, version,
                                       monster_id, hitpoints))

\* The body of transform_monster for a record d whose sub-page name is a str.
transform_named(d, page_name_sub) ==
  classify_and_build(d, DictGet(d, "page_name", PyStr(<< >>)), page_name_sub,
                     version_of(page_name_sub),
                     safe_int(DictGet(d, "id", PyNone), 0),
                     safe_int(DictGet(d, "hitpoints", PyNone), 0))

\* Transform wiki monster data to canonical format: None (the record is
\* skipped), the canonical monster, or Raised.  A str method called on a value
\* that is no str raises AttributeError (page_name_sub.split), as does .get on a
\* value that is no dict.
transform_monster(data) ==
  IF data.t # "dict" THEN Raised("AttributeError")
  ELSE IF DictGet(data.dict, "page_name_sub", PyStr(<< >>)).t # "str"
       THEN Raised("AttributeError")
  ELSE transform_named(data.dict, DictGet(data.dict, "page_name_sub", PyStr(<< >>)).str)

\* should_include, were a filter_mode that is no choice of --filter to refuse
\* every monster.
should_include_strict(m, mode) ==
  CASE mode = "all" -> TRUE
    [] mode = "slayer" -> Truthy(DictGet(m.dict, "slayer_monster", PyBool(FALSE)))
    [] mode = "boss" -> Truthy(DictGet(m.dict, "boss", PyBool(FALSE)))
    [] mode = "slayer+boss" -> \/ Truthy(DictGet(m.dict, "slayer_monster", PyBool(FALSE)))
                               \/ Truthy(DictGet(m.dict, "boss", PyBool(FALSE)))
    [] OTHER -> FALSE

\* Check if monster should be included based on filter.
should_include(m, mode) ==
  CASE mode = "all" -> TRUE
    [] mode = "slayer" -> Truthy(DictGet(m.dict, "slayer_monster", PyBool(FALSE)))
    [] mode = "boss" -> Truthy(DictGet(m.dict, "boss", PyBool(FALSE)))
    [] mode = "slayer+boss" -> \/ Truthy(DictGet(m.dict, "slayer_monster", PyBool(FALSE)))
                               \/ Truthy(DictGet(m.dict, "boss", PyBool(FALSE)))
    [] OTHER -> TRUE

----------------------------------------------------------------------------
(* main(): the fold into monsters_by_id and the output *)

\* A dict with int keys read in insertion order (monsters_by_id): a sequence of
\* [key, value] items with distinct keys, in the order the keys were inserted.
Keys(dict) == {dict[i].key : i \in 1..Len(dict)}

\* dict[k], for k in dict.
At(dict, k) == dict[CHOOSE i \in 1..Len(dict) : dict[i].key = k].value

\* dict[k] = value
SetItem(dict, k, value) ==
  IF k \in Keys(dict)
  THEN [i \in 1..Len(dict) |-> IF dict[i].key = k THEN [key |-> k, value |-> value]
                                                  ELSE dict[i]]
  ELSE Append(dict, [key |-> k, value |-> value])

\* What the for loop of main() has accumulated: the state before its first
\* iteration.  raised is the exception that left the loop, PyNone if none did.
loop_start ==
  [monsters_by_id |-> << >>, skipped |-> 0, filtered |-> 0, raised |-> PyNone]

\* dedup, were a later base form to displace a versioned entity.
dedup_prefers_base(by_id, m) ==
  IF m.dict.id.int \in Keys(by_id)
  THEN IF /\ ~Truthy(DictGet(m.dict, "version", PyNone))
          /\ Truthy(DictGet(At(by_id, m.dict.id.int).dict, "version", PyNone))
       THEN SetItem(by_id, m.dict.id.int, m)
       ELSE by_id
  ELSE SetItem(by_id, m.dict.id.int, m)

\* dedup, were the last entity of an id to win.
dedup_last_wins(by_id, m) == SetItem(by_id, m.dict.id.int, m)

\* dedup, were a versioned entity never inserted.
dedup_base_only(by_id, m) ==
  IF m.dict.id.int \in Keys(by_id) \/ Truthy(DictGet(m.dict, "version", PyNone))
  THEN by_id
  ELSE SetItem(by_id, m.dict.id.int, m)

\* The handling of an entity that passed the filter: the existing entity of a
\* known id is kept on both branches, a new id is inserted.
\* dedup, were the entity with the most hitpoints to be kept for an id.
dedup_keeps_stronger(by_id, m) ==
  IF m.dict.id.int \in Keys(by_id)
  THEN IF m.dict.hitpoints.int > At(by_id, m.dict.id.int).dict.hitpoints.int
       THEN SetItem(by_id, m.dict.id.int, m)
       ELSE by_id
  ELSE SetItem(by_id, m.dict.id.int, m)

dedup(by_id, m) ==
  IF m.dict.id.int \in Keys(by_id)
  THEN IF /\ Truthy(DictGet(m.dict, "version", PyNone))
          /\ ~Truthy(DictGet(At(by_id, m.dict.id.int).dict, "version", PyNone))
       THEN by_id                \* continue
       ELSE by_id                \* continue (verbose: "Duplicate ID ...")
  ELSE SetItem(by_id, m.dict.id.int, m)

\* after_transform, were the filter not applied.
after_transform_unfiltered(acc, m, mode) ==
  IF IsRaised(m) THEN [acc EXCEPT !.raised = m]
  ELSE IF m.t = "none" THEN [acc EXCEPT !.skipped = @ + 1]
  ELSE [acc EXCEPT !.monsters_by_id = dedup(@, m)]

\* after_transform, were the "continue" of a skipped record missing: the
\* subscript monster["id"] of None raises.
after_transform_no_continue(acc, m, mode) ==
  IF IsRaised(m) THEN [acc EXCEPT !.raised = m]
  ELSE IF m.t = "none"
       THEN [acc EXCEPT !.skipped = @ + 1, !.raised = Raised("TypeError")]
  ELSE IF ~should_include(m, mode) THEN [acc EXCEPT !.filtered = @ + 1]
  ELSE [acc EXCEPT !.monsters_by_id = dedup(@, m)]

\* after_transform, were a record that raises to be counted as skipped and the
\* loop to go on.
after_transform_recovers(acc, m, mode) ==
  IF IsRaised(m) \/ m.t = "none" THEN [acc EXCEPT !.skipped = @ + 1]
  ELSE IF ~should_include(m, mode) THEN [acc EXCEPT !.filtered = @ + 1]
  ELSE [acc EXCEPT !.monsters_by_id = dedup(@, m)]

\* after_transform, were a discarded duplicate to be counted as filtered.
after_transform_counts_duplicates(acc, m, mode) ==
  IF IsRaised(m) THEN [acc EXCEPT !.raised = m]
  ELSE IF m.t = "none" THEN [acc EXCEPT !.skipped = @ + 1]
  ELSE IF ~should_include(m, mode) THEN [acc EXCEPT !.filtered = @ + 1]
  ELSE IF m.dict.id.int \in Keys(acc.monsters_by_id) THEN [acc EXCEPT !.filtered = @ + 1]
  ELSE [acc EXCEPT !.monsters_by_id = dedup(@, m)]

\* One iteration of the for loop of main(), from the point where
\* transform_monster has returned (or raised) m.
after_transform(acc, m, mode) ==
  IF IsRaised(m) THEN [acc EXCEPT !.raised = m]
  ELSE IF m.t = "none" THEN [acc EXCEPT !.skipped = @ + 1]
  ELSE IF ~should_include(m, mode) THEN [acc EXCEPT !.filtered = @ + 1]
  ELSE [acc EXCEPT !.monsters_by_id = dedup(@, m)]

\* One iteration of the for loop of main() on the raw record data.
for_body(acc, data, mode) == after_transform(acc, transform_monster(data), mode)

\* The for loop of main() over records from the accumulated acc: it ends with
\* the last record, or with the first exception.
RECURSIVE for_loop(_, _, _)
for_loop(acc, records, mode) ==
  IF Len(records) = 0 \/ IsRaised(acc.raised) THEN acc
  ELSE for_loop(for_body(acc, Head(records), mode), Tail(records), mode)

\* The file name of a monster, f"{monster_id}.json", and of the index.
monster_file(monster_id) == IntToStr(monster_id) \o <<".", "j", "s", "o", "n">>
index_file == <<"_", "i", "n", "d", "e", "x", ".", "j", "s", "o", "n">>

\* sorted(ids) of a set of ints.
RECURSIVE sorted(_)
sorted(ids) ==
  IF ids = {} THEN << >>
  ELSE LET least == CHOOSE k \in ids : \A j \in ids : k <= j
       IN  << least >> \o sorted(ids \ {least})

\* The consolidated index main() writes last.
index_data(by_id) ==
  PyDict([count |-> PyInt(Len(by_id)),
          ids |-> PyList([i \in 1..Cardinality(Keys(by_id)) |-> PyInt(sorted(Keys(by_id))[i])]),
          source |-> PyStr(<<"o", "s", "r", "s", "_", "w", "i", "k", "i">>)])

----------------------------------------------------------------------------
(* The inputs *)

\* A field the raw record does not hold.
Absent == [t |-> "absent"]

\* The raw record (a dict) holding the fields of f that are not Absent.
Record(f) == PyDict([k \in {k \in DOMAIN f : f[k].t # "absent"} |-> f[k]])

\* The parser-artifact marker the wiki leaves in a text, as STRIP_MARKER_RE
\* describes it.
Marker == <<"U", "N", "I", "Q", "-", "-", "r", "e", "f", "-", "0", "0", "0", "0", "0", "0", "1", "A", "-", "Q", "I", "N", "U">>

\* The records main() folds: per id, base and versioned forms, slayer and boss
\* entities and plain ones, records the classifier rejects, a version that is
\* only whitespace, a negative id, a record whose sub-page name is null, and an
\* element of the sequence that is no mapping.
MainRecords ==
  { Record([page_name |-> PyStr(<<"F", "o", "o">>), page_name_sub |-> PyStr(<<"F", "o", "o">>),
            id |-> PyInt(1), hitpoints |-> PyInt(10), slayer_category |-> Absent,
            attribute |-> Absent, slayer_experience |-> Absent]),
    Record([page_name |-> PyStr(<<"F", "o", "o">>), page_name_sub |-> PyStr(<<"F", "o", "o", "#", "H", "a", "r", "d">>),
            id |-> PyInt(1), hitpoints |-> PyInt(25), slayer_category |-> PyStr(<<"B", "o", "s", "s", "e", "s">>),
            attribute |-> Absent, slayer_experience |-> PyInt(90)]),
    Record([page_name |-> PyStr(<<"B", "a", "r">>), page_name_sub |-> PyStr(<<"B", "a", "r", "#", "E", "a", "s", "y">>),
            id |-> PyStr(<<"1">>), hitpoints |-> PyInt(10), slayer_category |-> Absent,
            attribute |-> PyList(<< PyStr(<<"B", "o", "s", "s">>) >>), slayer_experience |-> Absent]),
    Record([page_name |-> PyStr(<<"F", "o", "o">>), page_name_sub |-> PyStr(<<"F", "o", "o">>),
            id |-> PyInt(1), hitpoints |-> PyInt(10),
            slayer_category |-> PyList(<< PyStr(<<"D", "r", "a", "g", "o", "n", "s">>) >>),
            attribute |-> Absent, slayer_experience |-> Absent]),
    Record([page_name |-> PyStr(<<"B", "a", "r">>), page_name_sub |-> PyStr(<<"B", "a", "r">>),
            id |-> PyStr(<<"2">>), hitpoints |-> PyInt(10),
            slayer_category |-> PyList(<< PyStr(<<"D", "r", "a", "g", "o", "n", "s">>) >>),
            attribute |-> Absent, slayer_experience |-> Absent]),
    Record([page_name |-> PyStr(<<"F", "o", "o">>), page_name_sub |-> PyStr(<<"F", "o", "o", "#", "H", "a", "r", "d">>),
            id |-> PyList(<< PyInt(2) >>), hitpoints |-> PyList(<< PyInt(7) >>),
            slayer_category |-> Absent, attribute |-> Absent,
            slayer_experience |-> Absent]),
    Record([page_name |-> PyStr(<<"F", "o", "o">>), page_name_sub |-> PyStr(<<"F", "o", "o", "#", "A", "s", "l", "e", "e", "p">>),
            id |-> PyInt(1), hitpoints |-> PyInt(10), slayer_category |-> Absent,
            attribute |-> Absent, slayer_experience |-> Absent]),
    Record([page_name |-> PyStr(<<"B", "a", "r">>), page_name_sub |-> PyStr(<<"B", "a", "r">>),
            id |-> PyInt(2), hitpoints |-> PyInt(0), slayer_category |-> PyStr(<<"B", "o", "s", "s", "e", "s">>),
            attribute |-> Absent, slayer_experience |-> Absent]),
    Record([page_name |-> PyStr(<<"B", "a", "z">>), page_name_sub |-> PyStr(<<"B", "a", "z", "#", " ">>),
            id |-> PyInt(1), hitpoints |-> PyInt(10), slayer_category |-> Absent,
            attribute |-> Absent, slayer_experience |-> PyInt(4)]),
    Record([page_name |-> PyStr(<<"F", "o", "o">>), page_name_sub |-> PyStr(<<"F", "o", "o", "#", "H", "a", "r", "d">>),
            id |-> PyInt(-1), hitpoints |-> PyInt(10), slayer_category |-> Absent,
            attribute |-> Absent, slayer_experience |-> Absent]),
    Record([page_name |-> PyStr(<<"F", "o", "o">>), page_name_sub |-> PyNone,
            id |-> PyInt(1), hitpoints |-> PyInt(10), slayer_category |-> Absent,
            attribute |-> Absent, slayer_experience |-> Absent]),
    PyInt(5) }

\* The display names (page_name) a call is given: plain names, names of the
\* skip list, names of historical and arena variants in several letter cases,
\* a name holding a marker, and values that are no str.
PageNames ==
  { PyStr(<<"G", "o", "b", "l", "i", "n">>),
    PyStr(<<"O", "r", "c", "a">>),
    PyStr(<<"o", "r", "c", "a">>),
    PyStr(<<"T", "i", "g", "e", "r", " ", "s", "h", "a", "r", "k">>),
    PyStr(<<"Z", "u", "l", "r", "a", "h", " ", "(", "H", "i", "s", "t", "o", "r", "i", "c", "a", "l", ")">>),
    PyStr(<<"R", "a", "t", " ", "(", "p", "v", "m", " ", "a", "r", "e", "n", "a", ")">>),
    PyStr(<<"I", "m", "p", " ", "(", "D", "e", "a", "d", "m", "a", "n", ":", " ", "A", "p", "o", "c", "a", "l", "y", "p", "s", "e", ")">>),
    PyStr(<<"B", "a", "t", " ", "(", "L", "a", "s", "t", " ", "M", "a", "n", " ", "S", "t", "a", "n", "d", "i", "n", "g", ")">>),
    PyStr(<<"H", "i", "s", "t", "o", "r", "i", "c", "a", "l">>),
    PyStr(<<>>),
    PyStr(<<"G", "o", "b", "l", "i", "n", " ">> \o Marker),
    PyNone,
    PyInt(5),
    PyList(<< PyStr(<<"O", "r", "c", "a">>) >>),
    Absent }

\* The qualified sub-page names (page_name_sub): with and without a version,
\* the versions and namespaces the classifier skips and near misses of them,
\* the barriers, and values that are no str.  A page title of the wiki holds
\* no line break.
SubPages ==
  { PyStr(<<"G", "o", "b", "l", "i", "n">>),
    PyStr(<<"G", "o", "b", "l", "i", "n", "#", "H", "a", "r", "d">>),
    PyStr(<<"G", "o", "b", "l", "i", "n", "#", "C", "h", "a", "l", "l", "e", "n", "g", "e", " ", "M", "o", "d", "e">>),
    PyStr(<<"G", "o", "b", "l", "i", "n", "#", "N", "o", "r", "m", "a", "l", " ", "(", "C", "h", "a", "l", "l", "e", "n", "g", "e", " ", "M", "o", "d", "e", ")">>),
    PyStr(<<"G", "o", "b", "l", "i", "n", "#", "S", "p", "a", "w", "n", " ", "p", "o", "i", "n", "t">>),
    PyStr(<<"G", "o", "b", "l", "i", "n", "#", "A", "s", "l", "e", "e", "p">>),
    PyStr(<<"G", "o", "b", "l", "i", "n", "#", "D", "e", "f", "e", "a", "t", "e", "d">>),
    PyStr(<<"G", "o", "b", "l", "i", "n", "#", "a", "s", "l", "e", "e", "p">>),
    PyStr(<<"A", "s", "l", "e", "e", "p">>),
    PyStr(<<"G", "o", "b", "l", "i", "n", "#", "a", "#", "A", "s", "l", "e", "e", "p">>),
    PyStr(<<"N", "P", "C", ":", "S", "o", "m", "e", "P", "a", "g", "e">>),
    PyStr(<<"N", "p", "c", "2", ":", "S", "o", "m", "e", "P", "a", "g", "e">>),
    PyStr(<<":", "G", "o", "b", "l", "i", "n">>),
    PyStr(<<"G", "o", "b", "l", "i", "n", "#", "a", ":", "b">>),
    PyStr(<<"S", "t", "r", "o", "n", "g", " ", "B", "a", "r", "r", "i", "e", "r">>),
    PyStr(<<"W", "e", "a", "k", " ", "B", "a", "r", "r", "i", "e", "r">>),
    PyStr(<<"M", "e", "d", "i", "u", "m", " ", "B", "a", "r", "r", "i", "e", "r">>),
    PyStr(<<"O", "v", "e", "r", "c", "h", "a", "r", "g", "e", "d", " ", "B", "a", "r", "r", "i", "e", "r">>),
    PyStr(<<"S", "t", "r", "o", "n", "g", " ", "B", "a", "r", "r", "i", "e", "r", "s">>),
    PyStr(<<"A", " ", "S", "t", "r", "o", "n", "g", " ", "B", "a", "r", "r", "i", "e", "r">>),
    PyStr(<<"G", "o", "b", "l", "i", "n", "#">>),
    PyStr(<<"G", "o", "b", "l", "i", "n", "#", " ">>),
    PyStr(<<>>),
    PyStr(<<"G", "o", "b", "l", "i", "n", "#">> \o Marker),
    PyNone,
    PyInt(5),
    PyList(<< PyStr(<<"G", "o", "b", "l", "i", "n">>) >>),
    Absent }

\* The raw values of id and of hitpoints.
Ids ==
  { PyInt(0),
    PyInt(1),
    PyInt(5),
    PyInt(-5),
    PyStr(<<"7">>),
    PyStr(<<"0">>),
    PyStr(<<"-", "2">>),
    PyStr(<<" ", "3", " ">>),
    PyStr(<<"a", "b", "c">>),
    PyStr(<<>>),
    PyNone,
    Absent,
    PyList(<< >>),
    PyList(<< PyInt(3) >>),
    PyList(<< PyInt(0), PyInt(3) >>),
    PyList(<< PyStr(<<"4">>) >>),
    PyList(<< PyList(<< PyInt(1) >>) >>),
    PyBool(TRUE),
    PyBool(FALSE),
    PyDict([k \in {} |-> PyNone]),
    PyDict("a" :> PyInt(1)) }

\* The shapes a raw field takes: null, ints, bools, strs (placeholders, tags,
\* numbers, text with a marker), lists of these, a nested list, mappings.
Shapes ==
  { PyNone,
    PyInt(0),
    PyInt(3),
    PyInt(-2),
    PyBool(TRUE),
    PyBool(FALSE),
    PyStr(<<>>),
    PyStr(<<" ">>),
    PyStr(<<"S", "l", "a", "s", "h">>),
    PyStr(<<"C", "R", "U", "S", "H">>),
    PyStr(<<"N", "o", "n", "e">>),
    PyStr(<<"n", "o", "n", "e">>),
    PyStr(<<"N", "/", "A">>),
    PyStr(<<"n", "/", "a">>),
    PyStr(<<"b", "o", "s", "s">>),
    PyStr(<<"B", "o", "s", "s", "e", "s">>),
    PyStr(<<"1", "2">>),
    PyStr(<<"2", "5", " ", "(", "M", "e", "l", "e", "e", ")">>),
    PyStr(<<"t", "r", "u", "e">>),
    PyStr(Marker),
    PyStr(<<"F", "i", "r", "e", " ">> \o Marker),
    PyList(<< >>),
    PyList(<< PyStr(<<"S", "t", "a", "b">>), PyStr(<<"N", "o", "n", "e">>) >>),
    PyList(<< PyStr(<<"n", "o", "n", "e">>) >>),
    PyList(<< PyStr(<<>>), PyStr(<<"S", "l", "a", "s", "h">>) >>),
    PyList(<< PyStr(<<" ">>) >>),
    PyList(<< PyStr(<<"N", "/", "A">>), PyStr(<<"M", "A", "G", "I", "C">>) >>),
    PyList(<< PyNone, PyStr(<<"R", "a", "n", "g", "e", "d">>) >>),
    PyList(<< PyInt(3) >>),
    PyList(<< PyInt(0), PyStr(<<"x">>) >>),
    PyList(<< PyList(<< PyStr(<<"a">>) >>) >>),
    PyList(<< PyStr(Marker), PyStr(<<"B", "o", "s", "s">>) >>),
    PyList(<< PyStr(<<"b", "o", "s", "s", "e", "s">>) >>),
    PyList(<< PyStr(<<"B", "o", "s", "s", "e", "s">>) >>),
    PyList(<< PyInt(10), PyStr(<<"2", "5", " ", "(", "M", "e", "l", "e", "e", ")">>), PyStr(<<"5">>) >>),
    PyDict([k \in {} |-> PyNone]),
    PyDict("a" :> PyInt(1)) }

\* A text in which a marker stands inside the two halves of another.
Nested ==
  <<"U", "N", "I", "Q", "-", "-", "a">> \o Marker
    \o <<"b", "-", "0", "0", "0", "0", "0", "0", "0", "0", "-", "Q", "I", "N", "U">>

\* The raw fields of a well-formed record.
BaseFields ==
  [ page_name |-> PyStr(<<"G", "o", "b", "l", "i", "n">>), page_name_sub |-> PyStr(<<"G", "o", "b", "l", "i", "n">>),
    id |-> PyInt(5), hitpoints |-> PyInt(10) ]

\* f with field k set to value.
With(f, k, value) == [x \in DOMAIN f \cup {k} |-> IF x = k THEN value ELSE f[x]]

\* The fields transform_monster coerces besides the names, id and hitpoints:
\* the tag lists, the slayer experience, max_hit, the weakness, and one field of
\* each remaining kind (safe_int, safe_uint, safe_bool).
OtherFields ==
  { "attack_style", "attribute", "slayer_category", "slayer_experience", "max_hit",
    "elemental_weakness", "combat_level", "size", "poison_immune" }

ListFields == { "attack_style", "attribute", "slayer_category" }

\* The arguments transform_monster is called with: every combination of the
\* names with a zero, a positive, a negative and a non-numeric id and hitpoints;
\* every id with every hitpoints; every shape in every other field, and in every
\* two of the list fields at once; a nested marker in each text field; and
\* values that are no mapping.
\* Attribute and category values that spell the boss words next to whitespace
\* or a marker.
FlagShapes ==
  { PyStr(<<"B", "o", "s", "s", " ">>),
    PyStr(<<"B", "o", "s", "s", "e", "s", " ">>),
    PyStr(<<"B", "o", "s", "s", "e", "s">> \o Marker),
    PyStr(<<"b", "o", "s", "s">> \o Marker),
    PyList(<< PyStr(<<" ", "b", "o", "s", "s">>) >>),
    PyList(<< PyStr(<<"B", "o", "s", "s", "e", "s">> \o Marker), PyStr(<<"x">>) >>) }

RawRecords ==
  { Record([page_name |-> pn, page_name_sub |-> ps, id |-> i, hitpoints |-> h]) :
      pn \in PageNames, ps \in SubPages,
      i \in { PyInt(1), PyInt(0), PyInt(-5) }, h \in { PyInt(10), PyStr(<<"0">>) } }
  \cup { Record(With(With(BaseFields, "id", i), "hitpoints", h)) : i \in Ids, h \in Ids }
  \cup { Record(With(BaseFields, k, x)) : k \in OtherFields, x \in Shapes }
  \cup { Record(With(With(BaseFields, k1, x1), k2, x2)) :
           k1 \in ListFields, k2 \in ListFields, x1 \in Shapes, x2 \in Shapes }
  \cup { Record(With(BaseFields, k, x)) :
           k \in { "page_name", "elemental_weakness", "attack_style", "attribute",
                   "slayer_category" },
           x \in { PyStr(Nested), PyStr(<<"x", " ">> \o Nested),
                   PyList(<< PyStr(<<"a">>), PyStr(Nested) >>) } }
  \cup { Record(With(BaseFields, "page_name_sub", PyStr(<<"G", "o", "b", "l", "i", "n", "#">> \o Nested))) }
  \cup { Record(With(BaseFields, k, x)) : k \in { "attribute", "slayer_category" }, x \in FlagShapes }
  \cup { PyNone, PyInt(5), PyList(<< >>) }


\* The longest input main() is run on.
MaxRecords == 2

RECURSIVE SeqsOfLen(_, _)
SeqsOfLen(S, n) ==
  IF n = 0 THEN {<< >>}
  ELSE {Append(s, x) : s \in SeqsOfLen(S, n - 1), x \in S}

SeqsUpTo(S, n) == UNION {SeqsOfLen(S, k) : k \in 0..n}

\* args.filter
Modes == {"all", "slayer", "boss", "slayer+boss"}

\* The value of monster before transform_monster has returned.
Pending == [t |-> "pending"]

\* What transform_monster returns for each record main() may be given.
EntityTable == [r \in MainRecords |-> transform_monster(r)]

----------------------------------------------------------------------------
(* main() *)

Init ==
  /\ wiki_monsters \in SeqsUpTo(MainRecords, MaxRecords)
  /\ filter_mode \in Modes
  /\ dry_run \in BOOLEAN
  /\ pc = "loop"
  /\ pos = 0
  /\ monsters_by_id = << >>
  /\ skipped = 0
  /\ filtered = 0
  /\ files = << >>
  /\ exit_code = -1
  /\ wiki_data = PyNone
  /\ monster = Pending
  /\ again = Pending
  /\ fn = ""
  /\ args = << >>
  /\ result = Pending

\* One iteration of "for wiki_data in wiki_monsters".  An exception leaves
\* main(); the handler of the script prints it and exits with 1.
ForLoop ==
  /\ pc = "loop"
  /\ pos < Len(wiki_monsters)
  /\ pos' = pos + 1
  /\ wiki_data' = wiki_monsters[pos + 1]
  /\ monster' = transform_monster(wiki_data')
  /\ \E acc \in {after_transform([monsters_by_id |-> monsters_by_id, skipped |-> skipped,
                                   filtered |-> filtered, raised |-> PyNone],
                                  monster', filter_mode)} :
       /\ monsters_by_id' = acc.monsters_by_id
       /\ skipped' = acc.skipped
       /\ filtered' = acc.filtered
       /\ pc' = IF IsRaised(acc.raised) THEN "exit" ELSE "loop"
       /\ exit_code' = IF IsRaised(acc.raised) THEN 1 ELSE exit_code
  /\ UNCHANGED << pureVars, again, wiki_monsters, filter_mode, dry_run, files >>

\* The loop has consumed every record: "Processed: ...", and with --dry-run the
\* sample is printed and main() returns 0.
EndLoop ==
  /\ pc = "loop"
  /\ pos = Len(wiki_monsters)
  /\ pc' = IF dry_run THEN "exit" ELSE "write"
  /\ exit_code' = IF dry_run THEN 0 ELSE exit_code
  /\ UNCHANGED << pureVars, again, wiki_monsters, filter_mode, dry_run, pos, monsters_by_id, skipped,
                  filtered, files, wiki_data, monster >>

\* One iteration of "for monster_id, monster in monsters_by_id.items()": the
\* file of the next monster, in insertion order, holds its JSON.
WriteFile ==
  /\ pc = "write"
  /\ LET n == Cardinality(DOMAIN files)
     IN  /\ n < Len(monsters_by_id)
         /\ files' = (monster_file(monsters_by_id[n + 1].key) :> monsters_by_id[n + 1].value)
                      @@ files
  /\ UNCHANGED << pureVars, again, wiki_monsters, filter_mode, dry_run, pc, pos, monsters_by_id, skipped,
                  filtered, exit_code, wiki_data, monster >>

\* Every monster file is written: the index is written and main() returns 0.
WriteIndex ==
  /\ pc = "write"
  /\ Cardinality(DOMAIN files) = Len(monsters_by_id)
  /\ files' = (index_file :> index_data(monsters_by_id)) @@ files
  /\ pc' = "exit"
  /\ exit_code' = 0
  /\ UNCHANGED << pureVars, again, wiki_monsters, filter_mode, dry_run, pos, monsters_by_id, skipped,
                  filtered, wiki_data, monster >>

Next == ForLoop \/ EndLoop \/ WriteFile \/ WriteIndex

Spec == Init /\ [][Next]_vars

----------------------------------------------------------------------------
(* One call of transform_monster *)

CallInit ==
  /\ wiki_data \in RawRecords
  /\ monster = Pending
  /\ again = Pending
  /\ fn = ""
  /\ args = << >>
  /\ result = Pending
  /\ wiki_monsters = << >>
  /\ filter_mode = "all"
  /\ dry_run = FALSE
  /\ pc = "call"
  /\ pos = 0
  /\ monsters_by_id = << >>
  /\ skipped = 0
  /\ filtered = 0
  /\ files = << >>
  /\ exit_code = -1

\* The call, were transform_monster to consume the lists of its argument
\* (value.pop() in place of value[0] and value[-1]).
Call_consumes ==
  /\ pc = "call"
  /\ monster = Pending
  /\ monster' = transform_monster(wiki_data)
  /\ wiki_data' = IF wiki_data.t = "dict"
                  THEN PyDict([k \in DOMAIN wiki_data.dict |->
                                 IF wiki_data.dict[k].t = "list" THEN PyList(<< >>)
                                 ELSE wiki_data.dict[k]])
                  ELSE wiki_data
  /\ UNCHANGED << pureVars, again, wiki_monsters, filter_mode, dry_run, pc, pos, monsters_by_id,
                  skipped, filtered, files, exit_code >>

\* monster = transform_monster(wiki_data)
Call ==
  /\ pc = "call"
  /\ monster = Pending
  /\ monster' = transform_monster(wiki_data)
  /\ UNCHANGED << pureVars, again, wiki_monsters, filter_mode, dry_run, pc, pos, monsters_by_id, skipped,
                  filtered, files, exit_code, wiki_data >>

\* A second call, transform_monster(wiki_data) again, of the same process.
CallAgain ==
  /\ pc = "call"
  /\ monster.t # "pending"
  /\ pc' = "called"
  /\ again' = transform_monster(wiki_data)
  /\ UNCHANGED << pureVars, wiki_monsters, filter_mode, dry_run, pos, monsters_by_id, skipped,
                  filtered, files, exit_code, wiki_data, monster >>

CallNext == Call \/ CallAgain

CallSpec == CallInit /\ [][CallNext]_vars

----------------------------------------------------------------------------
(* One call of a coercer, of strip_parser_tags, or of should_include *)

\* The pieces the texts given to strip_parser_tags are made of: a marker, the
\* two halves of a marker, white space, a letter, the quotes.
StripPieces ==
  { Marker,
    <<"U", "N", "I", "Q", "-", "-", "a">>,
    <<"b", "-", "0", "0", "0", "0", "0", "0", "0", "0", "-", "Q", "I", "N", "U">>,
    <<" ">>,
    <<"x">>,
    <<"'">>,
    <<"\n">> }

\* The longest text, in pieces.
MaxPieces == 3

\* The texts strip_parser_tags is called with.
StripInputs == { Flatten(ps) : ps \in SeqsUpTo(StripPieces, MaxPieces) }

\* The raw values of max_hit besides Shapes: negative numbers in lists, and
\* lists whose greatest element is the first, the middle or the last.
MaxHits ==
  { PyList(<< PyInt(-5) >>),
    PyList(<< PyInt(-5), PyInt(-2) >>),
    PyList(<< PyInt(7), PyInt(3) >>),
    PyList(<< PyInt(3), PyInt(7) >>),
    PyList(<< PyStr(<<"5">>), PyStr(<<"2", "5", " ", "(", "M", "e", "l", "e", "e", ")">>), PyInt(10) >>),
    PyList(<< PyList(<< PyInt(4), PyInt(9) >>), PyInt(6) >>),
    PyList(<< PyStr(<<"M", "e", "l", "e", "e", " ", "2", "5">>) >>),
    PyStr(<<" ", "8", " ">>),
    PyStr(<<"-", "3">>) }

\* The raw values safe_str is called with besides Shapes.
Names ==
  { PyList(<< PyStr(<<"O", "l", "d", "N", "a", "m", "e">>), PyStr(<<"N", "e", "w", "N", "a", "m", "e">>) >>),
    PyList(<< PyStr(<<"a">>), PyInt(7) >>),
    PyList(<< PyStr(<<"a">>), PyNone >>) }

\* The values of filter_mode should_include is called with: the choices of
\* --filter, and values that are none of them.
AnyModes == Modes \cup {"", "ALL", "Slayer", "bosses", "slayer,boss", "none"}

\* The canonical monsters should_include is called with.
Entities == { EntityTable[r] : r \in { x \in MainRecords : EntityTable[x].t = "dict" } }

\* The functions called on their own.
Functions ==
  { "safe_int", "safe_uint", "safe_str", "safe_bool", "parse_max_hit",
    "normalize_attack_style", "normalize_attributes", "normalize_slayer_category",
    "strip_parser_tags", "should_include" }

\* The argument lists a function is called with.  A default is one the source
\* passes (0 and 1 for the ints, "" for the str, False for the bool) or another
\* of its type.
ArgsOf(f) ==
  CASE f \in {"safe_int", "safe_uint"} ->
         { << v, PyInt(d) >> : v \in (Shapes \cup Ids) \ {Absent}, d \in {0, 1} }
    [] f = "safe_str" ->
         { << v, PyStr(d) >> : v \in Shapes \cup Names, d \in { << >>, <<"x">> } }
    [] f = "safe_bool" -> { << v, PyBool(d) >> : v \in Shapes, d \in BOOLEAN }
    [] f = "parse_max_hit" -> { << v >> : v \in Shapes \cup MaxHits }
    [] f = "strip_parser_tags" -> { << PyStr(s) >> : s \in StripInputs }
    [] f = "should_include" -> { << m, [t |-> "mode", mode |-> w] >> : m \in Entities, w \in AnyModes }
    [] OTHER -> { << v >> : v \in Shapes }

\* f(*a): the value returned, or Raised.
apply(f, a) ==
  CASE f = "safe_int" -> PyInt(safe_int(a[1], a[2].int))
    [] f = "safe_uint" -> PyInt(safe_uint(a[1], a[2].int))
    [] f = "safe_str" -> PyStr(safe_str(a[1], a[2].str))
    [] f = "safe_bool" -> PyBool(safe_bool(a[1], a[2].bool))
    [] f = "parse_max_hit" -> parse_max_hit(a[1])
    [] f = "normalize_attack_style" -> normalize_attack_style(a[1])
    [] f = "normalize_attributes" -> normalize_attributes(a[1])
    [] f = "normalize_slayer_category" -> normalize_slayer_category(a[1])
    [] f = "strip_parser_tags" -> strip_parser_tags(a[1])
    [] f = "should_include" -> PyBool(should_include(a[1], a[2].mode))

PureInit ==
  /\ fn \in Functions
  /\ args \in ArgsOf(fn)
  /\ result = Pending
  /\ pc = "apply"
  /\ wiki_data = PyNone
  /\ monster = Pending
  /\ again = Pending
  /\ wiki_monsters = << >>
  /\ filter_mode = "all"
  /\ dry_run = FALSE
  /\ pos = 0
  /\ monsters_by_id = << >>
  /\ skipped = 0
  /\ filtered = 0
  /\ files = << >>
  /\ exit_code = -1

\* result = fn(*args)
Apply ==
  /\ pc = "apply"
  /\ result.t = "pending"
  /\ result' = apply(fn, args)
  /\ UNCHANGED << mainVars, callVars, fn, args >>

PureSpec == PureInit /\ [][Apply]_vars

----------------------------------------------------------------------------
(* Properties of the fold of main() *)

\* The entity transform_monster makes of the i-th record of the input.
EntityOf(i) == EntityTable[wiki_monsters[i]]

\* The i-th record passed the classifier and the category filter of the run.
Passed(i) == EntityOf(i).t = "dict" /\ should_include(EntityOf(i), filter_mode)

\* The id of the entity of the i-th record, for a record that passed.
IdOf(i) == EntityOf(i).dict.id.int

\* What monster.get("version") is tested for in main().
Versioned(m) == Truthy(DictGet(m.dict, "version", PyNone))

\* The for loop of main() has consumed every record and none raised.
FoldDone == pos = Len(wiki_monsters) /\ exit_code # 1

\* The iteration just made met an entity whose id was already a key: the
\* incoming entity is monster, the existing one keeps the key.
Collision ==
  /\ pos >= 2
  /\ monster.t = "dict"
  /\ should_include(monster, filter_mode)
  /\ \E i \in 1..(pos - 1) : Passed(i) /\ IdOf(i) = monster.dict.id.int

C2_BaseDisplacesVersioned ==
  FoldDone =>
    \A i \in 1..Len(wiki_monsters), j \in 1..Len(wiki_monsters) :
      ( /\ i < j
        /\ Passed(i) /\ Passed(j) /\ IdOf(i) = IdOf(j)
        /\ EntityOf(i).dict.version.t = "str" /\ Len(EntityOf(i).dict.version.str) > 0
        /\ EntityOf(j).dict.version.t = "none" )
      => At(monsters_by_id, IdOf(i)).dict.version.t = "none"

\* C6: monsters_by_id starts empty, and no step of the run deletes a key or
\* changes the entity a key maps to: an id is written once.
C6_WrittenOnce ==
  /\ monsters_by_id = << >>
  /\ [][ \A k \in Keys(monsters_by_id) :
            /\ k \in Keys(monsters_by_id')
            /\ At(monsters_by_id', k) = At(monsters_by_id, k) ]_vars

\* C6 (witness): a second entity with the id of a kept one has been met, both
\* versioned, and the mapping still holds the one entry.
C6_Witness ==
  /\ Collision
  /\ Versioned(monster)
  /\ Versioned(At(monsters_by_id, monster.dict.id.int))
  /\ Len(monsters_by_id) = 1

\* The ids of the entities of the input that passed the classifier and the
\* filter.
PassedIds == {IdOf(i) : i \in {j \in 1..Len(wiki_monsters) : Passed(j)}}

\* C7: after the fold, the keys of monsters_by_id are exactly the ids of the
\* entities that passed the classifier and the filter, one item per id, and
\* every key maps to an entity whose id is the key.
C7_KeysAreThePassedIds ==
  FoldDone =>
    /\ Keys(monsters_by_id) = PassedIds
    /\ Len(monsters_by_id) = Cardinality(PassedIds)
    /\ \A i \in 1..Len(monsters_by_id) :
         monsters_by_id[i].value.dict.id.int = monsters_by_id[i].key

\* C7 (witness): the fold has ended; two entities passed, with one id, which
\* is the one key.
C7_Witness ==
  /\ FoldDone
  /\ Cardinality({i \in 1..Len(wiki_monsters) : Passed(i)}) = 2
  /\ Cardinality(PassedIds) = 1
  /\ Len(monsters_by_id) = 1

\* The items of a mapping (its order of insertion aside).
Items(dict) == {dict[i] : i \in 1..Len(dict)}

\* The final mapping of the run on the same input under --filter all.
UnderAll == for_loop(loop_start, wiki_monsters, "all").monsters_by_id

\* The items of dict whose entity the filter of the run accepts.
Restricted(dict) == {it \in Items(dict) : should_include(it.value, filter_mode)}

\* C8 (as claimed): the final mapping under a filter mode equals the final
\* mapping under `all` restricted to the entities the mode accepts.
C8_FilterThenDedupIsDedupThenFilter ==
  FoldDone => Items(monsters_by_id) = Restricted(UnderAll)

\* C8 (amended): every entity of the final mapping under a filter mode is
\* accepted by the mode, and every id that the mapping under `all` gives to an
\* entity the mode accepts has that same entity under the mode; the mapping
\* under the mode may hold further ids (those whose first-seen entity the mode
\* refuses while a later entity of the id is accepted).
C8_RestrictionIsKept ==
  FoldDone =>
    /\ \A it \in Items(monsters_by_id) : should_include(it.value, filter_mode)
    /\ Restricted(UnderAll) \subseteq Items(monsters_by_id)

\* C8 (witness): a run under a filter other than `all` that refused an entity
\* and kept another, which the run under `all` keeps too.
C8_Witness ==
  /\ FoldDone
  /\ filter_mode # "all"
  /\ filtered >= 1
  /\ Restricted(UnderAll) # {}
  /\ Len(monsters_by_id) >= 1

\* The i-th record is rejected: transform_monster returns None for it.
Rejected(i) == EntityOf(i).t = "none"

\* The input without its rejected records.
WithoutRejected ==
  LET kept == {i \in 1..Len(wiki_monsters) : ~Rejected(i)}
      RECURSIVE pick(_)
      pick(i) == IF i > Len(wiki_monsters) THEN << >>
                 ELSE (IF i \in kept THEN << wiki_monsters[i] >> ELSE << >>) \o pick(i + 1)
  IN  pick(1)

\* C9: when the run has left the loop, its mapping, and whether it failed, are
\* those of the run on the input without the rejected records; every entity of
\* the mapping is the entity of a record that was not rejected.
C9_RejectedContributeNothing ==
  pc # "loop" =>
    /\ monsters_by_id = for_loop(loop_start, WithoutRejected, filter_mode).monsters_by_id
    /\ (exit_code = 1) = IsRaised(for_loop(loop_start, WithoutRejected, filter_mode).raised)
    /\ \A it \in Items(monsters_by_id) :
         \E i \in 1..Len(wiki_monsters) : ~Rejected(i) /\ EntityOf(i) = it.value

\* C9 (witness): a rejected record whose raw id is k came before an accepted
\* record with id k, and the final mapping gives k to the accepted one.
C9_Witness ==
  /\ FoldDone
  /\ pc # "loop"
  /\ \E i \in 1..Len(wiki_monsters), j \in 1..Len(wiki_monsters) :
       /\ i < j
       /\ Rejected(i) /\ Passed(j)
       /\ safe_int(DictGet(wiki_monsters[i].dict, "id", PyNone), 0) = IdOf(j)
       /\ At(monsters_by_id, IdOf(j)) = EntityOf(j)

----------------------------------------------------------------------------
(* Properties of transform_monster *)

\* The call has returned or raised.
Returned == pc = "call" /\ monster.t # "pending"

\* The keys of the canonical monster.
CanonicalKeys ==
  DOMAIN INT_FIELDS \cup DOMAIN UINT_FIELDS \cup DOMAIN BOOL_FIELDS
  \cup { "id", "name", "version", "hitpoints", "attack_type", "max_hit", "attributes",
          "category", "slayer_monster", "slayer_xp", "boss", "elemental_weakness",
          "_source", "_wiki_page" }

\* C3: for a mapping-shaped record with fields of any shape, transform_monster
\* does not raise: it returns None or an entity holding every canonical field.
C3_Total ==
  (Returned /\ wiki_data.t = "dict") =>
    \/ monster.t = "none"
    \/ monster.t = "dict" /\ DOMAIN monster.dict = CanonicalKeys

\* The text of a name field of the record d: the str it holds, "" if absent.
TextOf(d, key) == DictGet(d, key, PyStr(<< >>)).str

\* The name fields of d are strs (or absent).
NamesAreText(d) ==
  DictGet(d, "page_name", PyStr(<< >>)).t = "str"
  /\ DictGet(d, "page_name_sub", PyStr(<< >>)).t = "str"

\* The tag fields of d that are lowercased hold null, a str, or a list of strs
\* and nulls.
TagsAreText(d) ==
  \A key \in {"attack_style", "attribute"} :
    LET x == DictGet(d, key, PyNone)
    IN  \/ x.t \in {"none", "str"}
        \/ x.t = "list" /\ \A i \in 1..Len(x.list) : x.list[i].t \in {"none", "str"}

\* The text after the first "#" of sub, "" if sub holds none.
VersionText(sub) ==
  IF "#" \in Range(sub)
  THEN LET h == CHOOSE i \in 1..Len(sub) : sub[i] = "#" /\ "#" \notin Range(SubSeq(sub, 1, i - 1))
       IN  [i \in 1..(Len(sub) - h) |-> sub[h + i]]
  ELSE << >>

\* One of the rules of the classifier holds for the record d.
RuleHolds(d) ==
  \/ \E w \in { <<"C", "h", "a", "l", "l", "e", "n", "g", "e", " ", "M", "o", "d", "e">>,
                 <<"S", "p", "a", "w", "n", " ", "p", "o", "i", "n", "t">>,
                 <<"A", "s", "l", "e", "e", "p">>,
                 <<"D", "e", "f", "e", "a", "t", "e", "d">> } :
       Contains(w, VersionText(TextOf(d, "page_name_sub")))
  \/ \E n \in 1..Len(TextOf(d, "page_name_sub")) :
       /\ n >= 2
       /\ TextOf(d, "page_name_sub")[n] = ":"
       /\ \A i \in 1..(n - 1) : IsLetter(TextOf(d, "page_name_sub")[i])
  \/ TextOf(d, "page_name") \in Range(MONSTERS_TO_SKIP)
  \/ TextOf(d, "page_name_sub") \in { k \o <<" ", "B", "a", "r", "r", "i", "e", "r">> : k \in BarrierKinds }
  \/ safe_int(DictGet(d, "id", PyNone), 0) = 0
  \/ safe_int(DictGet(d, "hitpoints", PyNone), 0) = 0
  \/ \E w \in { <<"(", "h", "i", "s", "t", "o", "r", "i", "c", "a", "l", ")">>,
                 <<"(", "p", "v", "m", " ", "a", "r", "e", "n", "a", ")">>,
                 <<"(", "d", "e", "a", "d", "m", "a", "n", ":", " ", "a", "p", "o", "c", "a", "l", "y", "p", "s", "e", ")">>,
                 <<"(", "l", "a", "s", "t", " ", "m", "a", "n", " ", "s", "t", "a", "n", "d", "i", "n", "g", ")">> } :
       Contains(w, lower(TextOf(d, "page_name")))

C5_PositiveIdAndHitpoints ==
  (Returned /\ monster.t = "dict") =>
    monster.dict.id.int >= 1 /\ monster.dict.hitpoints.int >= 1

\* The raw attack_style is null, a str, or a list of strs.
StyleIsText(d) ==
  LET x == DictGet(d, "attack_style", PyNone)
  IN  \/ x.t \in {"none", "str"}
      \/ x.t = "list" /\ \A i \in 1..Len(x.list) : x.list[i].t = "str"

\* C10: for a raw attack_style that is null, a str or a list of strs, the
\* attack_type of the entity holds only lowercase strs, none of them empty and
\* none of them the placeholder "none" or "n/a".
C10_AttackTypeClean ==
  (Returned /\ monster.t = "dict" /\ StyleIsText(wiki_data.dict)) =>
    \A i \in 1..Len(monster.dict.attack_type.list) :
      LET s == monster.dict.attack_type.list[i]
      IN  /\ s.t = "str"
          /\ lower(s.str) = s.str
          /\ s.str \notin { << >>, <<"n", "o", "n", "e">>, <<"n", "/", "a">> }

----------------------------------------------------------------------------
(* Properties of the tag stripper *)

\* The text s holds a match of STRIP_MARKER_RE.
HasMarker(s) == \E i \in 1..Len(s) : MarkerMatch(s, i) > 0

\* A str of the value x, at any depth of its lists and dicts, holds a marker,
\* as the wiki wrote it or in lower case.
RECURSIVE Leaks(_)
Leaks(x) ==
  CASE x.t = "str" -> HasMarker(x.str) \/ Contains(lower(Marker), x.str)
    [] x.t = "list" -> \E i \in 1..Len(x.list) : Leaks(x.list[i])
    [] x.t = "dict" -> \E k \in DOMAIN x.dict : Leaks(x.dict[k])
    [] OTHER -> FALSE

\* C11: no str field and no list element of an entity transform_monster
\* returns holds a parser-artifact marker, in the letter case of the wiki or
\* lowercased, whatever markers the raw fields embed.
C11_NoMarkerLeaks ==
  (Returned /\ monster.t = "dict") => ~Leaks(monster)

\* C12: for every text s, strip_parser_tags(s) holds no match of the marker
\* pattern and no leading or trailing white space, and stripping it again
\* leaves it as it is.
C12_StrippedIsClean ==
  (pc = "apply" /\ fn = "strip_parser_tags" /\ result.t = "str") =>
    /\ ~HasMarker(result.str)
    /\ strip(result.str) = result.str
    /\ strip_parser_tags(result) = result

----------------------------------------------------------------------------
(* Properties of the field coercers *)

\* The call of fn has returned or raised.
Applied(f) == pc = "apply" /\ fn = f /\ result.t # "pending"

\* The value x is a list of strs.
IsListOfStr(x) == x.t = "list" /\ \A i \in 1..Len(x.list) : x.list[i].t = "str"

\* C13: every coercer returns, and returns a value of its target type, for
\* every shape of the raw value: an int (a bool counts as one for Python) from
\* safe_int, safe_uint and parse_max_hit, a str from safe_str, a bool from
\* safe_bool, a list of strs from the three list coercers.
C13_CoercersTotal ==
  /\ \A f \in {"safe_int", "safe_uint"} : Applied(f) => result.t = "int"
  /\ Applied("parse_max_hit") => result.t \in {"int", "bool"}
  /\ Applied("safe_str") => result.t = "str"
  /\ Applied("safe_bool") => result.t = "bool"
  /\ \A f \in {"normalize_attack_style", "normalize_attributes", "normalize_slayer_category"} :
       Applied(f) => IsListOfStr(result)

\* The greatest number of a non-empty finite set.
Max(S) == CHOOSE x \in S : \A y \in S : y <= x

\* The number the claim gives for a raw max_hit: 0 for None, the integer for
\* an integer, the leading digit run of a str (0 if it has none), and for a
\* list the greatest of the numbers of its elements, 0 for an empty list.
RECURSIVE MaxHitClaimed(_)
MaxHitClaimed(v) ==
  CASE v.t \in {"int", "bool"} -> NumOf(v)
    [] v.t = "str" -> LET s == strip(v.str)
                      IN  IF Len(s) > 0 /\ IsDigit(s[1]) THEN LeadingDigits(s) ELSE 0
    [] v.t = "list" -> IF Len(v.list) = 0 THEN 0
                       ELSE Max({MaxHitClaimed(v.list[i]) : i \in 1..Len(v.list)})
    [] OTHER -> 0

\* The same, with the greatest of a list taken among 0 and its elements.
RECURSIVE MaxHitFloored(_)
MaxHitFloored(v) ==
  CASE v.t \in {"int", "bool"} -> NumOf(v)
    [] v.t = "str" -> LET s == strip(v.str)
                      IN  IF Len(s) > 0 /\ IsDigit(s[1]) THEN LeadingDigits(s) ELSE 0
    [] v.t = "list" -> Max({0} \cup {MaxHitFloored(v.list[i]) : i \in 1..Len(v.list)})
    [] OTHER -> 0

----------------------------------------------------------------------------
(* Properties of the derived flags *)

\* The normalized slayer category list of the raw record d.
CategoryOf(d) == normalize_slayer_category(DictGet(d, "slayer_category", PyNone)).list

\* The lowercased attributes of the raw record d.
AttributesOf(d) == normalize_attributes(DictGet(d, "attribute", PyNone)).list

\* C15: in every entity returned, slayer_monster is true iff the normalized
\* slayer category list is not empty or safe_int(slayer_experience) > 0, and
\* boss is true iff "boss" is one of the lowercased attributes or "Bosses", in
\* this letter case, is one of the slayer categories.
C15_DerivedFlags ==
  (Returned /\ monster.t = "dict") =>
    /\ monster.dict.slayer_monster.t = "bool"
    /\ monster.dict.slayer_monster.bool =
         ( \/ Len(CategoryOf(wiki_data.dict)) > 0
           \/ safe_int(DictGet(wiki_data.dict, "slayer_experience", PyNone), 0) > 0 )
    /\ monster.dict.boss.t = "bool"
    /\ monster.dict.boss.bool =
         ( \/ \E i \in 1..Len(AttributesOf(wiki_data.dict)) :
                EqStr(AttributesOf(wiki_data.dict)[i], <<"b", "o", "s", "s">>)
           \/ \E i \in 1..Len(CategoryOf(wiki_data.dict)) :
                EqStr(CategoryOf(wiki_data.dict)[i], <<"B", "o", "s", "s", "e", "s">>) )

\* C15 (witness): a record of category ["Bosses"] without an attribute gave a
\* boss, which is a slayer monster too.
C15_Witness ==
  /\ Returned
  /\ monster.t = "dict"
  /\ "attribute" \notin DOMAIN wiki_data.dict
  /\ DictGet(wiki_data.dict, "slayer_category", PyNone) = PyList(<< PyStr(<<"B", "o", "s", "s", "e", "s">>) >>)
  /\ monster.dict.boss = PyBool(TRUE)
  /\ monster.dict.slayer_monster = PyBool(TRUE)

----------------------------------------------------------------------------
(* Properties of should_include and of safe_str *)

\* C16: should_include(entity, mode) is true for `all`, the slayer_monster flag
\* of the entity for `slayer`, its boss flag for `boss`, the disjunction of the
\* two for `slayer+boss`, and true for every other value of mode.
C16_ModeTable ==
  Applied("should_include") =>
    /\ result.t = "bool"
    /\ result.bool =
         LET slayer == args[1].dict.slayer_monster.bool
             boss == args[1].dict.boss.bool
         IN  CASE args[2].mode = "slayer" -> slayer
               [] args[2].mode = "boss" -> boss
               [] args[2].mode = "slayer+boss" -> slayer \/ boss
               [] OTHER -> TRUE

\* C16 (witness): an entity that is neither a slayer monster nor a boss is
\* included under a mode that is no choice of --filter.
C16_Witness ==
  /\ Applied("should_include")
  /\ args[2].mode \notin Modes
  /\ ~args[1].dict.slayer_monster.bool
  /\ ~args[1].dict.boss.bool
  /\ result = PyBool(TRUE)

\* C17: safe_str(value, default) is default for None and for an empty list,
\* the str of the last element for a list that is not empty, and str(value)
\* otherwise.
C17_LastElementWins ==
  Applied("safe_str") =>
    /\ result.t = "str"
    /\ result.str =
         CASE args[1].t = "none" -> args[2].str
           [] args[1].t = "list" /\ Len(args[1].list) = 0 -> args[2].str
           [] args[1].t = "list" /\ Len(args[1].list) > 0 -> Str(args[1].list[Len(args[1].list)])
           [] OTHER -> Str(args[1])

\* C17 (witness): ["OldName", "NewName"] gave "NewName".
C17_Witness ==
  /\ Applied("safe_str")
  /\ args[1] = PyList(<< PyStr(<<"O", "l", "d", "N", "a", "m", "e">>),
                         PyStr(<<"N", "e", "w", "N", "a", "m", "e">>) >>)
  /\ result = PyStr(<<"N", "e", "w", "N", "a", "m", "e">>)

----------------------------------------------------------------------------
(* Properties of the optional texts of the canonical monster *)

\* The raw value x of a text field is absent or empty: null, "", or a list
\* that is empty or ends with one of these.
RECURSIVE IsEmptyText(_)
IsEmptyText(x) ==
  \/ x.t = "none"
  \/ x.t = "str" /\ Len(x.str) = 0
  \/ x.t = "list" /\ (Len(x.list) = 0 \/ IsEmptyText(x.list[Len(x.list)]))

\* C18: in every entity returned, version is None when page_name_sub holds no
\* "#" or nothing after it, elemental_weakness is None when the raw field is
\* absent or empty, and neither of the two is ever the empty str.
C18_NoneNeverEmpty ==
  (Returned /\ monster.t = "dict") =>
    /\ Len(VersionText(TextOf(wiki_data.dict, "page_name_sub"))) = 0
         => monster.dict.version.t = "none"
    /\ IsEmptyText(DictGet(wiki_data.dict, "elemental_weakness", PyNone))
         => monster.dict.elemental_weakness.t = "none"
    /\ ~EqStr(monster.dict.version, << >>)
    /\ ~EqStr(monster.dict.elemental_weakness, << >>)

----------------------------------------------------------------------------
(* Properties of the reducer as a function of its input *)

\* The entities main() gives to the duplicate handling, in order: those of the
\* records that passed the classifier and the filter.
RECURSIVE PresentedOf(_, _)
PresentedOf(records, mode) ==
  IF Len(records) = 0 THEN << >>
  ELSE LET m == EntityTable[Head(records)]
       IN  (IF m.t = "dict" /\ should_include(m, mode) THEN << m >> ELSE << >>)
             \o PresentedOf(Tail(records), mode)

\* The duplicate handling of main() over the entities es from index i on, each
\* entity marked with its position in es.
RECURSIVE Reduce(_, _, _)
Reduce(by_id, es, i) ==
  IF i > Len(es) THEN by_id
  ELSE Reduce(dedup(by_id, [t |-> "dict", dict |-> es[i].dict, position |-> i]), es, i + 1)

\* The positions of es whose entities the reducer keeps.
KeptPositions(es) ==
  { Reduce(<< >>, es, 1)[k].value.position : k \in 1..Len(Reduce(<< >>, es, 1)) }

\* The kept positions of every sequence of entities a run may meet.
KeptTable == [es \in SeqsUpTo(Entities, MaxRecords) |-> KeptPositions(es)]

\* Two sequences of entities agree, position by position, on id and on whether
\* version is set.
Agree(a, b) ==
  /\ Len(a) = Len(b)
  /\ \A i \in 1..Len(a) :
       a[i].dict.id = b[i].dict.id /\ Versioned(a[i]) = Versioned(b[i])

\* The for loop has consumed every record without an exception, and main()
\* has not gone on yet.
FoldEnd == pc = "loop" /\ pos = Len(wiki_monsters)

\* C19: at the end of the fold the mapping holds exactly the entities at the
\* kept positions of the sequence given to the reducer (a second run over the
\* sequence gives the same mapping), and every sequence of entities that
\* agrees with it on ids and on whether version is set has the same kept
\* positions, whatever its other fields hold.
C19_KeptPositionsDependOnIdsAndVersions ==
  FoldEnd =>
    LET es == PresentedOf(wiki_monsters, filter_mode)
    IN  /\ Items(monsters_by_id) =
             { [key |-> es[i].dict.id.int, value |-> es[i]] : i \in KeptTable[es] }
        /\ \A other \in SeqsOfLen(Entities, Len(es)) :
             Agree(es, other) => KeptTable[other] = KeptTable[es]

\* C19 (witness): two entities with one id were given to the reducer, another
\* sequence with other entities agrees with them, and the first is kept.
C19_Witness ==
  /\ FoldEnd
  /\ Len(PresentedOf(wiki_monsters, filter_mode)) = 2
  /\ KeptTable[PresentedOf(wiki_monsters, filter_mode)] = {1}
  /\ \E other \in SeqsOfLen(Entities, 2) :
       /\ Agree(PresentedOf(wiki_monsters, filter_mode), other)
       /\ other[1] # PresentedOf(wiki_monsters, filter_mode)[1]
       /\ other[2] # PresentedOf(wiki_monsters, filter_mode)[2]
  /\ Len(monsters_by_id) = 1

----------------------------------------------------------------------------
(* Determinism of transform_monster *)

----------------------------------------------------------------------------
(* Failure and statistics of a run of main() *)

\* An element of the raw record sequence is no mapping.
Malformed == \E i \in 1..Len(wiki_monsters) : wiki_monsters[i].t # "dict"

\* No record of the input makes transform_monster raise.
NoneRaises == \A i \in 1..Len(wiki_monsters) : ~IsRaised(EntityOf(i))

\* C21: a run on a sequence holding an element that is no mapping never writes
\* a file, neither of an entity nor the index, never returns 0, and ends with
\* the error (exit code 1) at that element at the latest; a run in which no
\* record raises and that ends with an empty mapping returns 0.
C21_StructuralFailureWritesNothing ==
  /\ Malformed =>
       /\ files = << >>
       /\ exit_code # 0
       /\ \A i \in 1..pos : wiki_monsters[i].t # "dict" => (pos = i /\ exit_code = 1)
       /\ pc = "exit" => exit_code = 1
  /\ (NoneRaises /\ pc = "exit" /\ Len(monsters_by_id) = 0) => exit_code = 0

\* C21 (witness): a record was accepted, the next element was no mapping, and
\* the run ended with the error and no file.
C21_Witness ==
  /\ pc = "exit"
  /\ exit_code = 1
  /\ pos = 2
  /\ wiki_monsters[1].t = "dict"
  /\ wiki_monsters[2].t # "dict"
  /\ Len(monsters_by_id) = 1
  /\ files = << >>

\* The number of records among the first n that passed the classifier and the
\* filter and met a key already held by an earlier record: the duplicates
\* discarded by the collision branch of main().
Duplicates(n) ==
  Cardinality({i \in 1..n : Passed(i) /\ \E j \in 1..(i - 1) : Passed(j) /\ IdOf(j) = IdOf(i)})

\* No two records that passed the classifier and the filter share an id.
NoSharedId == Duplicates(Len(wiki_monsters)) = 0

\* What the report of main() adds up: skipped, filtered and kept.
Accounted == skipped + filtered + Len(monsters_by_id)

\* C22 (as stated): in every state of the run the records processed are
\* skipped + filtered + kept + duplicates discarded, and once the loop is left
\* skipped + filtered + kept is the raw record count exactly when no two
\* surviving records share an id.
C22_EveryRecordInOneOfFour ==
  /\ pos = Accounted + Duplicates(pos)
  /\ pc # "loop" => (Accounted = Len(wiki_monsters) <=> NoSharedId)

\* C22 (amended): after every iteration that completes, the records processed
\* are skipped + filtered + kept + duplicates discarded; an iteration in which
\* transform_monster raises ends the run and its record is in none of the four
\* counts; when the loop has consumed every record, skipped + filtered + kept is
\* the raw record count exactly when no two surviving records share an id.
C22_CompletedIterationsConserved ==
  /\ exit_code # 1 => pos = Accounted + Duplicates(pos)
  /\ exit_code = 1 =>
       /\ IsRaised(EntityOf(pos))
       /\ pos = Accounted + Duplicates(pos) + 1
       /\ Accounted < Len(wiki_monsters)
  /\ FoldDone => (Accounted = Len(wiki_monsters) <=> NoSharedId)

\* C22 (witness): the second iteration completed by discarding a duplicate of
\* the entity kept by the first.
C22_Witness ==
  /\ pos = 2
  /\ exit_code # 1
  /\ Len(monsters_by_id) = 1
  /\ Duplicates(pos) = 1
  /\ Accounted = 1
  /\ Len(wiki_monsters) = 2

----------------------------------------------------------------------------
(* The derived flags against the entity as returned *)

\* boss of the entity m says whether "boss" is an element of its attributes
\* or "Bosses" an element of its category.
BossFlagAgrees(m) ==
  m.dict.boss.bool <=> (\/ InList(BossWord, m.dict.attributes.list)
                        \/ InList(BossesWord, m.dict.category.list))

\* slayer_monster of the entity m says whether its category is not empty or
\* its slayer_xp is above 0.
SlayerFlagAgrees(m) ==
  m.dict.slayer_monster.bool <=> (Len(m.dict.category.list) > 0 \/ m.dict.slayer_xp.float > 0)

\* C23: in every entity transform_monster returns, boss is true iff "boss" is
\* an element of the attributes list of the entity or "Bosses" an element of
\* its category list, and slayer_monster is true iff its category list is not
\* empty or its slayer_xp is above 0.
C23_FlagsAgreeWithReturned ==
  (Returned /\ monster.t = "dict") => (BossFlagAgrees(monster) /\ SlayerFlagAgrees(monster))

====
